---- MODULE Spec2Model ----
(***************************************************************************)
(* The zip Writer of apk-editor (package zip, src/unnamed/part_000): the   *)
(* Writer, its directory, the per-entry fileWriter sessions and the bytes  *)
(* pushed to the sink, as a state machine.                                 *)
(*                                                                         *)
(* The bytes pushed to the sink are kept as a sequence of segments, one    *)
(* per encoded structure (local header, payload chunk, data descriptor,    *)
(* central-directory record, zip64 end record, zip64 locator, end record); *)
(* each segment holds the field values as the writeBuf encoders truncate   *)
(* them, its length in bytes and the stream position it was written at.    *)
(* The sink itself never fails (a bufio.Writer over a healthy file).       *)
(*                                                                         *)
(* The signing key and certificate of package signv2                       *)
(* (src/unnamed/part_001) are a second state machine over one SigningCert  *)
(* instance, its caller and the files its paths name.                      *)
(***************************************************************************)
EXTENDS Integers, Sequences, FiniteSets, TLC

VARIABLES
  cw,          \* w.cw.count: the stream offset counter
  out,         \* the segments pushed through w.cw, in order
  dir,         \* w.dir: sequence of [fh, offset]; fh = 0 is a nil FileHeader
  last,        \* w.last: index into fws, 0 = nil
  closed,      \* w.closed
  names,       \* w.names: function name -> index in dir
  compressors, \* w.compressors: the methods with a per-writer compressor
  heap,        \* the FileHeader objects, addressed by index (a *FileHeader)
  fws,         \* every fileWriter handed out so far
  written,     \* per fileWriter: the bytes its Write calls accepted (history)
  ret,         \* what the last call was and what it returned
  calls,       \* number of calls made so far, per kind of call
  kind,        \* "new" (NewWriter) or "append" (newAppendingWriter)
  eocd,        \* directory totals and the end records made from them
  skipped,     \* the skipManifest argument of newAppendingWriter
  sc,          \* the SigningCert instance (its SigningKey embedded)
  res          \* what the last call on sc was, what it returned and did

vars == <<cw, out, dir, last, closed, names, compressors, heap, fws,
          written, ret, calls, kind, eocd, skipped, sc, res>>

-----------------------------------------------------------------------------
(* Bounds of the model *)

MaxOps == 5            \* calls in all
MaxSetOffset == 1      \* SetOffset calls
MaxRegister == 1       \* RegisterCompressor calls
MaxEntries == 3        \* Create, CreateHeader and Copy calls
MaxWrites == 2         \* Write calls
MaxCloses == 2         \* Close calls

-----------------------------------------------------------------------------
(* Wide numbers.  TLC's integers are 32 bits wide, so a value that can    *)
(* pass 2^31 (an offset, a size, a CRC) is kept as two limbs, hi * 2^16 +  *)
(* lo with 0 <= lo < 2^16: exact up to 2^47, far above every value the     *)
(* model reaches.                                                          *)

Limb == 256 * 256

W(hi, lo) == [hi |-> hi, lo |-> lo]

\* the wide form of a small natural
Wn(n) == W(n \div Limb, n % Limb)

WAdd(a, b) ==
  LET s == a.lo + b.lo IN W(a.hi + b.hi + (s \div Limb), s % Limb)

\* a - b for a >= b
WSub(a, b) ==
  IF a.lo >= b.lo THEN W(a.hi - b.hi, a.lo - b.lo)
  ELSE W(a.hi - b.hi - 1, a.lo + Limb - b.lo)

WGt(a, b) == a.hi > b.hi \/ (a.hi = b.hi /\ a.lo > b.lo)
WGe(a, b) == a.hi > b.hi \/ (a.hi = b.hi /\ a.lo >= b.lo)

\* uint16(v), uint32(v): the conversions the writeBuf encoders are fed through
u16(n) == n % Limb
u16w(a) == a.lo
u32w(a) == W(a.hi % Limb, a.lo)

-----------------------------------------------------------------------------
(* Constants of package zip *)

uint16max == W(0, 65535)
uint32max == W(65535, 65535)
fileHeaderLen == 30
directoryHeaderLen == 46
directoryEndLen == 22
dataDescriptorLen == 16
dataDescriptor64Len == 24
directory64LocLen == 20
directory64EndLen == 56
zipVersion20 == 20
zipVersion45 == 45
zip64ExtraId == 1
Store == 0
Deflate == 8
ANDROIDMANIFEST == "AndroidManifest.xml"

ErrAlgorithm == "zip: unsupported compression algorithm"
ErrDuplicate == "archive/zip: invalid duplicate FileHeader"
ErrClosedTwice == "zip: writer closed twice"
ErrWriteClosed == "zip: write to closed file"
ErrDataOffset == "zip: source entry unreadable"
ErrCompressor == "zip: compressor failed"
PanicSetOffset == "zip: SetOffset called after data was written"
PanicNilHeader == "runtime error: nil pointer dereference"
NoErr == "nil"

-----------------------------------------------------------------------------
(* Bit operations and the CRC-32 of hash/crc32 *)

\* fh.Flags |= 0x8
OrBit3(f) == IF (f \div 8) % 2 = 1 THEN f ELSE f + 8

\* fh.CreatorVersion&0xff00 | zipVersion20
PinCreator(cv) == (cv \div 256) * 256 + zipVersion20

RECURSIVE Xor16(_, _)
Xor16(a, b) ==
  IF a = 0 THEN b
  ELSE IF b = 0 THEN a
  ELSE (((a % 2) + (b % 2)) % 2) + 2 * Xor16(a \div 2, b \div 2)

WXor(a, b) == W(Xor16(a.hi, b.hi), Xor16(a.lo, b.lo))

\* c >> 1 on a 32-bit value
WShr1(c) == W(c.hi \div 2, (c.lo \div 2) + (c.hi % 2) * 32768)

\* ^c on a 32-bit value
WNot(c) == W(65535 - c.hi, 65535 - c.lo)

\* crc32.IEEE, the reflected polynomial 0xedb88320
IEEEPoly == W(60856, 33568)

RECURSIVE CrcBits(_, _)
CrcBits(c, k) ==
  IF k = 0 THEN c
  ELSE CrcBits(IF c.lo % 2 = 1 THEN WXor(WShr1(c), IEEEPoly) ELSE WShr1(c), k - 1)

RECURSIVE CrcBytes(_, _)
CrcBytes(c, p) ==
  IF p = <<>> THEN c
  ELSE CrcBytes(CrcBits(WXor(c, W(0, Head(p))), 8), Tail(p))

\* hash.Hash32.Write of crc32.NewIEEE(): the digest holds the finished sum
crc32Update(crc, p) == WNot(CrcBytes(WNot(crc), p))

-----------------------------------------------------------------------------
(* Extra fields: a sequence of chunks, each [tag, len, ...] *)

RECURSIVE ExtraLen(_)
ExtraLen(e) == IF e = <<>> THEN 0 ELSE Head(e).len + ExtraLen(Tail(e))

UserExtra(n) ==
  IF n = 0 THEN <<>>
  ELSE << [tag |-> "user", len |-> n, id |-> 0, size |-> 0,
           usize |-> Wn(0), csize |-> Wn(0), offset |-> Wn(0)] >>

\* the block Close appends: a 28-byte buffer holding the id, the length 24
\* and three 64-bit values
Zip64Block(usize, csize, offset) ==
  [tag |-> "zip64", len |-> 28, id |-> zip64ExtraId, size |-> 24,
   usize |-> usize, csize |-> csize, offset |-> offset]

-----------------------------------------------------------------------------
(* FileHeader objects *)

FileHeader(name, method, extraLen, attrs, origin) ==
  [Name |-> name, CreatorVersion |-> 0, ReaderVersion |-> 0, Flags |-> 0,
   Method |-> method, ModifiedTime |-> 0, ModifiedDate |-> 0, CRC32 |-> Wn(0),
   CompressedSize |-> Wn(0), UncompressedSize |-> Wn(0),
   CompressedSize64 |-> Wn(0), UncompressedSize64 |-> Wn(0),
   Extra |-> UserExtra(extraLen), ExternalAttrs |-> attrs, Comment |-> "",
   origin |-> origin]

\* FileHeader.isZip64
isZip64(fh) ==
  WGt(fh.CompressedSize64, uint32max) \/ WGt(fh.UncompressedSize64, uint32max)


-----------------------------------------------------------------------------
(* The inputs: source entries (Files of a parsed Reader) and the headers   *)
(* a caller passes to CreateHeader                                         *)

\* a method id the package has no compressor for
CustomMethods == {99}

\* A File of a Reader: its FileHeader, its headerOffset, and whether
\* DataOffset can read its local header.
SrcFiles ==
  << [hdr |-> [FileHeader("a", Store, 0, 420, "reader") EXCEPT
                 !.CRC32 = W(55443, 10924),
                 !.CompressedSize = Wn(2), !.UncompressedSize = Wn(2),
                 !.CompressedSize64 = Wn(2), !.UncompressedSize64 = Wn(2)],
      headerOffset |-> Wn(0), dataOK |-> TRUE],
     [hdr |-> [FileHeader(ANDROIDMANIFEST, Deflate, 4, 0, "reader") EXCEPT
                 !.Flags = 8, !.CRC32 = W(4660, 22136),
                 !.CompressedSize = uint32max, !.UncompressedSize = uint32max,
                 !.CompressedSize64 = W(65536, 0),
                 !.UncompressedSize64 = W(65536, 10)],
      headerOffset |-> Wn(40), dataOK |-> TRUE],
     [hdr |-> [FileHeader("c", Store, 0, 0, "reader") EXCEPT
                 !.CRC32 = W(1, 1),
                 !.CompressedSize = uint32max, !.UncompressedSize = uint32max,
                 !.CompressedSize64 = uint32max,
                 !.UncompressedSize64 = uint32max],
      headerOffset |-> W(65536, 100), dataOK |-> FALSE] >>

NumFiles == Len(SrcFiles)

\* Reader.AppendOffset: where the existing container's entries end
AppendOffset == W(131072, 200)

\* The FileHeader objects a caller owns and passes to CreateHeader
UserHeaders ==
  << FileHeader("a", Store, 65520, 0, "user"),
     FileHeader("c", 99, 4, 0, "user") >>

UserIds == (NumFiles + 1) .. (NumFiles + Len(UserHeaders))

Payloads == { <<104, 105>>, <<33>> }

Names == {"a", "b"}

SetOffsetArgs == { Wn(7), uint32max, W(65536, 0) }

-----------------------------------------------------------------------------
(* Writing through the countWriter *)

\* countWriter.Write on w.cw: the segment goes to the sink at the current
\* position and the counter advances by its length.
cwWrite(S, seg) ==
  [S EXCEPT !.out = Append(S.out, seg @@ [at |-> S.cw]),
            !.cw = WAdd(S.cw, seg.len)]

writeHeader(S, fh) ==
  cwWrite(S,
    [k |-> "lfh", ReaderVersion |-> fh.ReaderVersion, Flags |-> fh.Flags,
     Method |-> fh.Method, ModifiedTime |-> fh.ModifiedTime,
     ModifiedDate |-> fh.ModifiedDate,
     crc |-> Wn(0), csize |-> Wn(0), usize |-> Wn(0),
     nameLen |-> u16(Len(fh.Name)), extraLen |-> u16(ExtraLen(fh.Extra)),
     Name |-> fh.Name, Extra |-> fh.Extra,
     len |-> Wn(fileHeaderLen + Len(fh.Name) + ExtraLen(fh.Extra))])

writeDesc(S, fh) ==
  cwWrite(S,
    IF isZip64(fh)
    THEN [k |-> "desc", crc |-> fh.CRC32, z64 |-> TRUE,
          csize |-> fh.CompressedSize64, usize |-> fh.UncompressedSize64,
          len |-> Wn(dataDescriptor64Len)]
    ELSE [k |-> "desc", crc |-> fh.CRC32, z64 |-> FALSE,
          csize |-> fh.CompressedSize, usize |-> fh.UncompressedSize,
          len |-> Wn(dataDescriptorLen)])

-----------------------------------------------------------------------------
(* Compressors.  Store is the nopCloser: every byte goes straight through. *)
(* Any other compressor (flate, or one a caller registered) buffers what   *)
(* it is fed and emits the compressed form when it is closed: the bytes    *)
(* fed in plus a two-byte end marker.                                      *)

\* the package-level compressor(method) of the registry
builtinCompressor(method) == method \in {Store, Deflate}

\* Writer.compressor: "none" is a nil Compressor
compressor(comps, method) ==
  IF method \in DOMAIN comps THEN comps[method]
  ELSE IF builtinCompressor(method) THEN "ok"
  ELSE "none"

\* fw.comp.Write(p) under fw.compCount
compWrite(S, i, p) ==
  LET fw == S.fws[i] IN
  IF fw.method = Store
  THEN LET T == cwWrite(S, [k |-> "data", raw |-> p, src |-> 0, final |-> FALSE,
                            len |-> Wn(Len(p))])
       IN [T EXCEPT !.fws[i].compCount = WAdd(fw.compCount, Wn(Len(p)))]
  ELSE [S EXCEPT !.fws[i].held = fw.held \o p]

\* fw.comp.Close() under fw.compCount
compClose(S, i) ==
  LET fw == S.fws[i] IN
  IF fw.method = Store THEN S
  ELSE LET n == Wn(Len(fw.held) + 2)
           T == cwWrite(S, [k |-> "data", raw |-> fw.held, src |-> 0,
                            final |-> TRUE, len |-> n])
       IN [T EXCEPT !.fws[i].compCount = WAdd(fw.compCount, n),
                    !.fws[i].held = <<>>]

-----------------------------------------------------------------------------
(* fileWriter *)

\* a Write that never looks at the session's closed flag
writeRefusedNever(fw) == FALSE

\* the guard of fileWriter.Write
writeRefused(fw) == fw.closed

\* fw.rawCount, the countWriter the caller's bytes enter through
rawCounted(S, i, n) == [S EXCEPT !.fws[i].rawCount = WAdd(@, n)]

\* fileWriter.Write past its guard
fwWrite(S, i, p) ==
  rawCounted(
    compWrite([S EXCEPT !.fws[i].crc32 = crc32Update(@, p)], i, p),
    i, Wn(Len(p)))

\* the FileHeader as fileWriter.close back-fills it
backfill(fh, fw) ==
  LET g == [fh EXCEPT !.CRC32 = fw.crc32,
                      !.CompressedSize64 = fw.compCount,
                      !.UncompressedSize64 = fw.rawCount]
  IN IF isZip64(g)
     THEN [g EXCEPT !.CompressedSize = uint32max,
                    !.UncompressedSize = uint32max,
                    !.ReaderVersion = zipVersion45]
     ELSE [g EXCEPT !.CompressedSize = u32w(g.CompressedSize64),
                    !.UncompressedSize = u32w(g.UncompressedSize64)]

\* the data descriptor of the FileHeader object id
writeDescOf(S, id) == writeDesc(S, S.heap[id])

\* fileWriter.close on w.header.FileHeader, the object id (0 = nil): the
\* back-fill, then the descriptor
updateHeader(S, i, id) ==
  IF id = 0 THEN [S EXCEPT !.panic = PanicNilHeader]
  ELSE writeDescOf([S EXCEPT !.heap[id] = backfill(@, S.fws[i])], id)

\* fileWriter.close once its compressor is closed
closeHeader(S, i) == updateHeader(S, i, S.dir[S.fws[i].header].fh)

\* fileWriter.close past its guard (its callers call it on an open session)
fwClose(S, i) ==
  closeHeader(compClose([S EXCEPT !.fws[i].closed = TRUE], i), i)

\* the guard shared by Writer.closeLastWriter and Writer.Close
lastOpen(S) == S.last # 0 /\ ~S.fws[S.last].closed

\* a closeLastWriter that forgets the session but leaves it open
closeLastWriterForgets(S) == [S EXCEPT !.last = 0]

\* Writer.closeLastWriter
closeLastWriter(S) ==
  IF lastOpen(S) THEN [fwClose(S, S.last) EXCEPT !.last = 0] ELSE S

-----------------------------------------------------------------------------
(* Writer.CreateHeader *)

\* the duplicate-FileHeader test of CreateHeader
dupHeader(d, id) == Len(d) > 0 /\ d[Len(d)].fh = id

\* a lookup that clears the entry and forgets every name of the index
supersedeAll(S, name) ==
  IF name \in DOMAIN S.names
  THEN [S EXCEPT !.dir[S.names[name]].fh = 0, !.names = <<>>]
  ELSE S

\* the names lookup of CreateHeader: an entry of that name the index knows
\* is cleared and leaves the index
supersede(S, name) ==
  IF name \in DOMAIN S.names
  THEN [S EXCEPT !.dir[S.names[name]].fh = 0,
                 !.names = [n \in (DOMAIN S.names) \ {name} |-> S.names[n]]]
  ELSE S

\* the header fields CreateHeader forces
forceDescriptor(fh) ==
  [fh EXCEPT !.Flags = OrBit3(fh.Flags),
             !.CreatorVersion = PinCreator(fh.CreatorVersion),
             !.ReaderVersion = zipVersion20]

newFileWriter(slot, method) ==
  [header |-> slot, method |-> method, closed |-> FALSE, crc32 |-> Wn(0),
   rawCount |-> Wn(0), compCount |-> Wn(0), held |-> <<>>]

\* an offset taken after the fixed part of the local header
entryOffsetLate(S) == WAdd(S.cw, Wn(fileHeaderLen))

\* the offset CreateHeader and Copy record for the entry they add
entryOffset(S) == S.cw

\* the end of CreateHeader: w.last is the new fileWriter, which is returned
setLast(S) ==
  [S |-> [S EXCEPT !.last = Len(S.fws)], err |-> NoErr, h |-> Len(S.fws)]

\* CreateHeader from the header it appends to w.dir on: the entry, its
\* fileWriter and the local header
appendHeader(S, id, fh) ==
  setLast(writeHeader(
    [S EXCEPT !.dir = Append(@, [fh |-> id, offset |-> entryOffset(S)]),
              !.fws = Append(@, newFileWriter(Len(S.dir) + 1, fh.Method))],
    fh))

\* CreateHeader on the compressor c it found for the method
withCompressor(S, c, id) ==
  IF c = "none" THEN [S |-> S, err |-> ErrAlgorithm, h |-> 0]
  ELSE IF c = "fails" THEN [S |-> S, err |-> ErrCompressor, h |-> 0]
  ELSE appendHeader(S, id, S.heap[id])

\* CreateHeader from the flags it forces on
forceHeader(S, comps, id) ==
  withCompressor([S EXCEPT !.heap[id] = forceDescriptor(@)],
                 compressor(comps, S.heap[id].Method), id)

\* CreateHeader once the last session is closed
checkHeader(S, comps, id) ==
  IF S.panic # "" THEN [S |-> S, err |-> S.panic, h |-> 0]
  ELSE IF dupHeader(S.dir, id) THEN [S |-> S, err |-> ErrDuplicate, h |-> 0]
  ELSE forceHeader(supersede(S, S.heap[id].Name), comps, id)

\* Writer.CreateHeader on the FileHeader object id: the state it leaves, the
\* error it returns and the handle it returns (0 = nil)
CreateHeaderOn(S, comps, id) == checkHeader(closeLastWriter(S), comps, id)

-----------------------------------------------------------------------------
(* Writer.Copy *)

\* a copy of the source file's FileHeader with its flags as they are
copiedHeaderPlain(f) == [SrcFiles[f].hdr EXCEPT !.origin = "copy"]

\* the FileHeader Copy makes of the source file's: a copy with bit 3 set
copiedHeader(f) ==
  [SrcFiles[f].hdr EXCEPT !.Flags = OrBit3(@), !.origin = "copy"]

\* Copy once the last session is closed: the entry joins w.dir, then the
\* local header, the source's compressed bytes and the data descriptor
copyEntry(S, f, fh) ==
  IF S.panic # "" THEN S
  ELSE writeDesc(
         cwWrite(
           writeHeader(
             [S EXCEPT !.heap = Append(@, fh),
                       !.dir = Append(@, [fh |-> Len(S.heap) + 1,
                                          offset |-> entryOffset(S)])],
             fh),
           [k |-> "data", raw |-> <<>>, src |-> f, final |-> TRUE,
            len |-> fh.CompressedSize64]),
         fh)

\* Writer.Copy of source file f past its DataOffset call
CopyOn(S, f) == copyEntry(closeLastWriter(S), f, copiedHeader(f))

-----------------------------------------------------------------------------
(* Writer.Close *)

\* a per-entry test that lets the offset 0xffffffff pass as a plain offset
needsZip64Above(fh, offset) == isZip64(fh) \/ WGt(offset, uint32max)

\* the per-entry zip64 test of the central directory
needsZip64(fh, offset) == isZip64(fh) \/ WGe(offset, uint32max)

\* the FileHeader as Close leaves it: a zip64 block is appended to Extra
withZip64Extra(fh, offset) ==
  IF needsZip64(fh, offset)
  THEN [fh EXCEPT !.Extra = Append(fh.Extra,
          Zip64Block(fh.UncompressedSize64, fh.CompressedSize64, offset))]
  ELSE fh

\* the central-directory record of directory slot i, from the header as
\* withZip64Extra left it; slot is the record's place in w.dir
directoryRecord(fh, offset, z64, i) ==
  [k |-> "cdr", slot |-> i,
   CreatorVersion |-> u16(fh.CreatorVersion),
   ReaderVersion |-> u16(fh.ReaderVersion),
   Flags |-> u16(fh.Flags), Method |-> u16(fh.Method),
   ModifiedTime |-> u16(fh.ModifiedTime), ModifiedDate |-> u16(fh.ModifiedDate),
   crc |-> fh.CRC32,
   csize |-> IF z64 THEN uint32max ELSE fh.CompressedSize,
   usize |-> IF z64 THEN uint32max ELSE fh.UncompressedSize,
   nameLen |-> u16(Len(fh.Name)), extraLen |-> u16(ExtraLen(fh.Extra)),
   commentLen |-> u16(Len(fh.Comment)),
   ExternalAttrs |-> fh.ExternalAttrs,
   offset |-> IF WGt(offset, uint32max) THEN uint32max ELSE u32w(offset),
   Name |-> fh.Name, Extra |-> fh.Extra, Comment |-> fh.Comment,
   len |-> Wn(directoryHeaderLen + Len(fh.Name) + ExtraLen(fh.Extra)
              + Len(fh.Comment))]

\* one pass of the loop of Close: the record of slot i goes out
writeRecord(S, i, z64) ==
  cwWrite(S, directoryRecord(S.heap[S.dir[i].fh], S.dir[i].offset, z64, i))

\* the loop of Close over w.dir from slot i on: the state it leaves and the
\* number of records it wrote
RECURSIVE writeDirectory(_, _, _)
writeDirectory(S, i, records) ==
  IF i > Len(S.dir) THEN [S |-> S, records |-> records]
  ELSE IF S.dir[i].fh = 0 THEN writeDirectory(S, i + 1, records)
  ELSE
    writeDirectory(
      writeRecord(
        [S EXCEPT !.heap[S.dir[i].fh] = withZip64Extra(@, S.dir[i].offset)],
        i, needsZip64(S.heap[S.dir[i].fh], S.dir[i].offset)),
      i + 1, WAdd(records, Wn(1)))

\* an end-of-directory test that is off by one on the record count
needsZip64EndFrom65535(records, size, offset) ==
  WGe(records, uint16max) \/ WGt(size, uint32max) \/ WGt(offset, uint32max)

\* the zip64 test of the end of the central directory
needsZip64End(records, size, offset) ==
  WGt(records, uint16max) \/ WGt(size, uint32max) \/ WGt(offset, uint32max)

\* what Close writes after the records, from the record count and the
\* positions the directory starts and ends at
endOfDirectory(records, start, end) ==
  LET size == WSub(end, start)
      offset == start
      z64 == needsZip64End(records, size, offset)
      r == IF z64 THEN uint16max ELSE records
      sz == IF z64 THEN uint32max ELSE size
      o == IF z64 THEN uint32max ELSE offset
  IN [zip64 |-> z64,
      end64 |-> [k |-> "z64end", recLen |-> directory64EndLen - 12,
                 versionMadeBy |-> zipVersion45, versionNeeded |-> zipVersion45,
                 disk |-> 0, dirDisk |-> 0,
                 recordsDisk |-> records, records |-> records,
                 size |-> size, offset |-> offset,
                 len |-> Wn(directory64EndLen)],
      loc64 |-> [k |-> "z64loc", dirDisk |-> 0, endOffset |-> end, disks |-> 1,
                 len |-> Wn(directory64LocLen)],
      classic |-> [k |-> "eocd", recordsDisk |-> u16w(r), records |-> u16w(r),
                   size |-> u32w(sz), offset |-> u32w(o),
                   len |-> Wn(directoryEndLen)]]

writeEnd(S, e) ==
  LET S1 == IF e.zip64 THEN cwWrite(cwWrite(S, e.end64), e.loc64) ELSE S
  IN cwWrite(S1, e.classic)

-----------------------------------------------------------------------------
(* Writer.PaddingHeader *)

\* the null bytes PaddingHeader appends to an Extra of n bytes
padlen(n) == (4 - ((n + 4) % 4)) % 4

\* Writer.PaddingHeader: the FileHeader as it leaves it
PaddingHeader(fh) ==
  IF fh.CompressedSize64 # fh.UncompressedSize64 THEN fh
  ELSE IF padlen(ExtraLen(fh.Extra)) = 0 THEN fh
  ELSE [fh EXCEPT !.Extra = Append(@,
          [tag |-> "pad", len |-> padlen(ExtraLen(fh.Extra)), id |-> 0,
           size |-> 0, usize |-> Wn(0), csize |-> Wn(0), offset |-> Wn(0)])]

-----------------------------------------------------------------------------
(* Package signv2: the algorithm tags, keys, certificates, and the bytes   *)
(* they are read from.  A byte string is kept as what the decoders make of *)
(* it: whether pem.Decode finds a block in it, the block's type, and the   *)
(* encoding and the key its DER bytes hold.                                *)

\* KeyAlgorithm
RSA == "RSA"
EC == "EC"

\* HashAlgorithm; SHA1 stands for the tags the package does not sign with
SHA256 == "SHA256"
SHA512 == "SHA512"
SHA1 == "SHA1"

\* the errors of SigningKey.Resolve and SigningCert.Resolve
ErrECKey == "elliptic curve support not currently implemented"
ErrHash == "unsupported hash algorithm was specified"
ErrKeyPEM == "key does not decode as PEM"
ErrKeyBlock ==
  "type set as RSA but PEM block does not look like a 'PRIVATE KEY'"
ErrCertPEM == "certificate does not decode as PEM"
ErrCertKey ==
  "type set as RSA but certificate doesn't contain RSA public key"
ErrMismatch == "certificate public key does not match private key's copy"
ErrECCert == "EC not currently supported"
ErrKeyType == "unknown signing key type"
\* the errors of the parsers and of the file system, and the panic of a
\* failed type assertion
ErrPKCS1 == "x509: failed to parse private key (PKCS1)"
ErrPKCS8 == "x509: failed to parse private key (PKCS8)"
ErrX509 == "x509: malformed certificate"
ErrStat == "stat: no such file or directory"
PanicAssertion == "interface conversion: interface {} is not *rsa.PrivateKey"

\* a key: its algorithm and, for RSA, modulus and public exponent
PrivateKey(alg, n, e) == [alg |-> alg, N |-> n, E |-> e]
NilKey == PrivateKey("nil", 0, 0)
Key1 == PrivateKey(RSA, 3233, 17)
Key2 == PrivateKey(RSA, 3233, 5)
KeyEC == PrivateKey(EC, 0, 0)

\* DER bytes: enc is what they encode ("pkcs1", "pkcs8", "cert", or "junk")
Der(enc, key) == [enc |-> enc, key |-> key]

\* a byte string holding one PEM block, the nil slice, and bytes without
\* a PEM block
Pem(type, enc, key) ==
  [nil |-> FALSE, pem |-> TRUE, type |-> type, der |-> Der(enc, key)]
NilBytes ==
  [nil |-> TRUE, pem |-> FALSE, type |-> "", der |-> Der("junk", NilKey)]
Garbage ==
  [nil |-> FALSE, pem |-> FALSE, type |-> "", der |-> Der("junk", NilKey)]

\* the pairs of tags a caller configures
Algorithms == { <<RSA, SHA256>>, <<RSA, SHA512>>, <<RSA, SHA1>>, <<EC, SHA256>> }

\* what a caller or a file supplies as key bytes
KeySources ==
  { NilBytes,
    Pem("CERTIFICATE", "cert", Key1),
    Pem("RSA PRIVATE KEY", "pkcs1", Key1),
    Pem("PRIVATE KEY", "pkcs8", Key2),
    Pem("PRIVATE KEY", "pkcs8", KeyEC),
    Pem("PRIVATE KEY", "junk", NilKey) }

\* what a caller or a file supplies as certificate bytes
CertSources ==
  { NilBytes,
    Pem("CERTIFICATE", "cert", Key1),
    Pem("CERTIFICATE", "cert", Key2),
    Pem("CERTIFICATE", "cert", KeyEC),
    Pem("CERTIFICATE", "junk", NilKey) }

KeyPaths == {"", "key.pem"}
CertPaths == {"", "cert.pem"}

\* what a path names when it is loaded: nothing, a directory, or a file
File(b) == [kind |-> "file", bytes |-> b]
Missing == [kind |-> "missing", bytes |-> NilBytes]
Directory == [kind |-> "dir", bytes |-> NilBytes]

KeyFiles ==
  { Missing, Directory, File(Garbage),
    File(Pem("RSA PRIVATE KEY", "pkcs1", Key1)),
    File(Pem("PRIVATE KEY", "pkcs8", Key2)) }

CertFiles ==
  { Missing, Directory,
    File(Pem("CERTIFICATE", "cert", Key1)),
    File(Pem("CERTIFICATE", "cert", Key2)) }

\* safeLoad: a directory passes the Stat test's error return with a nil
\* error and no bytes
safeLoad(file) ==
  IF file.kind = "missing" THEN [bytes |-> NilBytes, err |-> ErrStat]
  ELSE IF file.kind = "dir" THEN [bytes |-> NilBytes, err |-> NoErr]
  ELSE [bytes |-> file.bytes, err |-> NoErr]

\* pem.Decode: the first block, or none
NoBlock == [found |-> FALSE, Type |-> "", Bytes |-> Der("junk", NilKey)]
pemDecode(b) ==
  IF b.pem THEN [found |-> TRUE, Type |-> b.type, Bytes |-> b.der]
  ELSE NoBlock

\* x509.ParsePKCS1PrivateKey
ParsePKCS1PrivateKey(der) ==
  IF der.enc = "pkcs1" THEN [key |-> der.key, err |-> NoErr]
  ELSE [key |-> NilKey, err |-> ErrPKCS1]

\* x509.ParsePKCS8PrivateKey
ParsePKCS8PrivateKey(der) ==
  IF der.enc = "pkcs8" THEN [key |-> der.key, err |-> NoErr]
  ELSE [key |-> NilKey, err |-> ErrPKCS8]

\* x509.Certificate
Certificate(pub, raw) == [nil |-> FALSE, PublicKey |-> pub, Raw |-> raw]
NilCertificate == [nil |-> TRUE, PublicKey |-> NilKey, Raw |-> Der("junk", NilKey)]

\* x509.ParseCertificate
ParseCertificate(der) ==
  IF der.enc = "cert" THEN [cert |-> Certificate(der.key, der), err |-> NoErr]
  ELSE [cert |-> NilCertificate, err |-> ErrX509]

\* hex.EncodeToString(sha256.Sum256(raw)): a digest of the raw bytes, as
\* digits; the empty string is <<>>
Sum256Hex(raw) ==
  << (raw.key.N * 31 + raw.key.E * 7 + Len(raw.enc)) % 251,
     (raw.key.N + raw.key.E * 13 + Len(raw.key.alg)) % 241 >>

\* a SigningCert as its caller builds it: nothing resolved yet
SigningCert(keyPath, keyBytes, type, hash, certPath, certBytes) ==
  [KeyPath |-> keyPath, KeyBytes |-> keyBytes, Type |-> type, Hash |-> hash,
   Key |-> NilKey, CertPath |-> certPath, Certificate |-> NilCertificate,
   CertHash |-> <<>>, CertBytes |-> certBytes]

ZeroCert == SigningCert("", NilBytes, RSA, SHA256, "", NilBytes)

\* something a Resolve call did: a load, a decode (of the bytes b) or a
\* parse
Event(e, b) == [ev |-> e, bytes |-> b]

\* what a Resolve call leaves: the instance, the error it returns or the
\* panic it raises, and what it did on the way (loads, decodes, parses)
Resolved(s, err, did) ==
  [sc |-> s, err |-> err, panic |-> err = PanicAssertion, did |-> did]

\* SigningKey.Resolve from the PKCS#8 parser's result on
assertRSA(s, p8, did) ==
  IF p8.err # NoErr THEN Resolved(s, p8.err, did)
  ELSE IF p8.key.alg # RSA THEN Resolved(s, PanicAssertion, did)
  ELSE Resolved([s EXCEPT !.Key = p8.key], NoErr, did)

\* a parse that stops at the PKCS#1 parser's error
parsePrivateKeyOnce(s, p1, der, did) ==
  IF p1.err = NoErr THEN Resolved([s EXCEPT !.Key = p1.key], NoErr, did)
  ELSE Resolved(s, p1.err, did)

\* SigningKey.Resolve from the PKCS#1 parser's result on
parsePrivateKey(s, p1, der, did) ==
  IF p1.err = NoErr THEN Resolved([s EXCEPT !.Key = p1.key], NoErr, did)
  ELSE assertRSA(s, ParsePKCS8PrivateKey(der), Append(did, Event("pkcs8", NilBytes)))

\* SigningKey.Resolve from the decoded block on
parseBlock(s, block, did) ==
  IF ~block.found THEN Resolved(s, ErrKeyPEM, did)
  ELSE IF s.Type = RSA
  THEN IF block.Type # "RSA PRIVATE KEY" /\ block.Type # "PRIVATE KEY"
       THEN Resolved(s, ErrKeyBlock, did)
       ELSE parsePrivateKey(s, ParsePKCS1PrivateKey(block.Bytes), block.Bytes,
                            Append(did, Event("pkcs1", NilBytes)))
  ELSE IF s.Type = EC THEN Resolved(s, ErrECCert, did)
  ELSE Resolved(s, ErrKeyType, did)

\* SigningKey.Resolve from the bytes it loaded on
decodeKey(s, loaded, did) ==
  IF loaded.err # NoErr THEN Resolved(s, loaded.err, did)
  ELSE parseBlock(s, pemDecode(loaded.bytes), Append(did, Event("pem:key", loaded.bytes)))

\* a test that lets every hash tag through
hashSupportedAny(h) == TRUE

\* the hash tags SigningKey.Resolve lets through
hashSupported(h) == h \in {SHA256, SHA512}

\* a test that never takes the key for resolved
alreadyResolvedNever(s) == FALSE

\* SigningKey.Resolve has nothing to do: no path, and a parsed key
alreadyResolved(s) == s.KeyPath = "" /\ s.Key # NilKey

\* SigningKey.Resolve; file is what KeyPath names at the time of the call
SigningKeyResolve(s, file) ==
  IF s.Type # RSA THEN Resolved(s, ErrECKey, <<>>)
  ELSE IF ~hashSupported(s.Hash) THEN Resolved(s, ErrHash, <<>>)
  ELSE IF alreadyResolved(s) THEN Resolved(s, NoErr, <<>>)
  ELSE IF s.KeyPath = ""
  THEN decodeKey(s, [bytes |-> s.KeyBytes, err |-> NoErr], <<>>)
  ELSE decodeKey(s, safeLoad(file), <<Event("load:key", NilBytes)>>)

\* the comparison of the private key's public part with the certificate's
keyMatches(key, pub) == key.N = pub.N /\ key.E = pub.E

\* a check that stores the certificate before it compares the keys
checkCertificateLate(s, cert, certHash, did) ==
  IF cert.PublicKey.alg # RSA THEN Resolved(s, ErrCertKey, did)
  ELSE IF ~keyMatches(s.Key, cert.PublicKey)
  THEN Resolved([s EXCEPT !.Certificate = cert, !.CertHash = certHash],
                ErrMismatch, did)
  ELSE Resolved([s EXCEPT !.Certificate = cert, !.CertHash = certHash],
                NoErr, did)

\* SigningCert.Resolve from the parsed certificate on
checkCertificate(s, cert, certHash, did) ==
  IF s.Type = RSA
  THEN IF cert.PublicKey.alg # RSA THEN Resolved(s, ErrCertKey, did)
       ELSE IF ~keyMatches(s.Key, cert.PublicKey)
       THEN Resolved(s, ErrMismatch, did)
       ELSE Resolved([s EXCEPT !.Certificate = cert, !.CertHash = certHash],
                     NoErr, did)
  ELSE IF s.Type = EC THEN Resolved(s, ErrECCert, did)
  ELSE Resolved(s, ErrKeyType, did)

\* SigningCert.Resolve from the certificate parser's result on
hashCertificate(s, parsed, did) ==
  IF parsed.err # NoErr THEN Resolved(s, parsed.err, did)
  ELSE checkCertificate(s, parsed.cert, Sum256Hex(parsed.cert.Raw), did)

\* SigningCert.Resolve from the decoded block on
parseCertBlock(s, block, did) ==
  IF ~block.found THEN Resolved(s, ErrCertPEM, did)
  ELSE hashCertificate(s, ParseCertificate(block.Bytes), Append(did, Event("x509", NilBytes)))

\* SigningCert.Resolve from the bytes it loaded on
decodeCert(s, loaded, did) ==
  IF loaded.err # NoErr THEN Resolved(s, loaded.err, did)
  ELSE parseCertBlock(s, pemDecode(loaded.bytes), Append(did, Event("pem:cert", loaded.bytes)))

\* SigningCert.Resolve once the embedded SigningKey.Resolve returned R
loadCertificate(R, file) ==
  IF R.err # NoErr THEN R
  ELSE IF R.sc.CertPath # "" /\ R.sc.CertBytes.nil
  THEN decodeCert(R.sc, safeLoad(file), Append(R.did, Event("load:cert", NilBytes)))
  ELSE decodeCert(R.sc, [bytes |-> R.sc.CertBytes, err |-> NoErr], R.did)

\* SigningCert.Resolve; keyFile and certFile are what KeyPath and CertPath
\* name at the time of the call
SigningCertResolve(s, keyFile, certFile) ==
  loadCertificate(SigningKeyResolve(s, keyFile), certFile)

\* before the first call on the instance
NoCall == [op |-> "new", err |-> NoErr, panic |-> FALSE, did |-> <<>>]

-----------------------------------------------------------------------------
(* The state machine *)

\* the Writer and what hangs off it, as one value
Now ==
  [cw |-> cw, out |-> out, dir |-> dir, last |-> last, names |-> names,
   heap |-> heap, fws |-> fws, panic |-> ""]

Becomes(S) ==
  /\ cw' = S.cw
  /\ out' = S.out
  /\ dir' = S.dir
  /\ last' = S.last
  /\ names' = S.names
  /\ heap' = S.heap
  /\ fws' = S.fws

Returned(op, err, n, h, fh) ==
  [op |-> op, err |-> err, n |-> n, h |-> h, fh |-> fh,
   panic |-> err \in {PanicSetOffset, PanicNilHeader}]

CallKinds == {"set", "reg", "add", "write", "close"}

Budget ==
  [set |-> MaxSetOffset, reg |-> MaxRegister, add |-> MaxEntries,
   write |-> MaxWrites, close |-> MaxCloses]

NoEnd == [zip64 |-> FALSE]

NoTotals ==
  [records |-> Wn(0), start |-> Wn(0), end |-> Wn(0), done |-> FALSE,
   res |-> NoEnd]

\* the FileHeader objects that exist before the first call: those of the
\* source files, then the caller's
InitHeap == [i \in 1 .. NumFiles |-> SrcFiles[i].hdr] \o UserHeaders

\* every file from the i-th on, whatever its name
keptFilesAll(i, skipManifest) == [j \in 1 .. (NumFiles - i + 1) |-> i + j - 1]

\* the files newAppendingWriter keeps
RECURSIVE keptFiles(_, _)
keptFiles(i, skipManifest) ==
  IF i > NumFiles THEN <<>>
  ELSE IF skipManifest /\ SrcFiles[i].hdr.Name = ANDROIDMANIFEST
       THEN keptFiles(i + 1, skipManifest)
       ELSE <<i>> \o keptFiles(i + 1, skipManifest)

\* NewWriter
InitNew ==
  /\ kind = "new"
  /\ skipped = FALSE
  /\ cw = Wn(0)
  /\ dir = <<>>
  /\ names = <<>>

\* newAppendingWriter on the Reader holding SrcFiles
InitAppend ==
  \E skipManifest \in BOOLEAN :
    LET kept == keptFiles(1, skipManifest) IN
    /\ kind = "append"
    /\ skipped = skipManifest
    /\ cw = AppendOffset
    /\ dir = [j \in 1 .. Len(kept) |->
                [fh |-> kept[j], offset |-> SrcFiles[kept[j]].headerOffset]]
    /\ names = [n \in {SrcFiles[kept[j]].hdr.Name : j \in 1 .. Len(kept)} |->
                  CHOOSE j \in 1 .. Len(kept) :
                    /\ SrcFiles[kept[j]].hdr.Name = n
                    /\ \A l \in 1 .. Len(kept) :
                         SrcFiles[kept[l]].hdr.Name = n => l <= j]

Init ==
  /\ InitNew \/ InitAppend
  /\ out = <<>>
  /\ last = 0
  /\ closed = FALSE
  /\ compressors = <<>>
  /\ heap = InitHeap
  /\ fws = <<>>
  /\ written = <<>>
  /\ ret = Returned("new", NoErr, 0, 0, 0)
  /\ calls = [c \in CallKinds |-> 0]
  /\ eocd = NoTotals
  /\ sc = ZeroCert
  /\ res = NoCall

nops == calls.set + calls.reg + calls.add + calls.write + calls.close

\* a call of kind c is made: the program has not panicked, and the model's
\* budget allows one more
Call(c) ==
  /\ ~ret.panic
  /\ nops < MaxOps
  /\ calls[c] < Budget[c]
  /\ calls' = [calls EXCEPT ![c] = calls[c] + 1]

\* Writer.SetOffset(n)
SetOffset(n) ==
  /\ Call("set")
  /\ IF cw # Wn(0)
     THEN /\ ret' = Returned("SetOffset", PanicSetOffset, 0, 0, 0)
          /\ cw' = cw
     ELSE /\ ret' = Returned("SetOffset", NoErr, 0, 0, 0)
          /\ cw' = n
  /\ UNCHANGED <<out, dir, last, closed, names, compressors, heap, fws,
                 written, kind, eocd, skipped, sc, res>>

\* Writer.RegisterCompressor(method, comp); comp is a compressor that works
\* ("ok") or one whose constructor returns an error ("fails")
RegisterCompressor(method, comp) ==
  /\ Call("reg")
  /\ compressors' = [m \in (DOMAIN compressors) \cup {method} |->
                       IF m = method THEN comp ELSE compressors[m]]
  /\ ret' = Returned("RegisterCompressor", NoErr, 0, 0, 0)
  /\ UNCHANGED <<cw, out, dir, last, closed, names, heap, fws, written, kind,
                 eocd, skipped, sc, res>>

\* CreateHeader returns R: the Writer is as R.S, and the caller holds the
\* handle R.h unless it is nil
Created(op, R, id) ==
  /\ Becomes(R.S)
  /\ written' = IF R.h = 0 THEN written ELSE Append(written, <<>>)
  /\ ret' = Returned(op, R.err, 0, R.h, id)

\* Writer.CreateHeader(fh), fh one of the caller's FileHeader objects
CreateHeader(id) ==
  /\ Call("add")
  /\ Created("CreateHeader", CreateHeaderOn(Now, compressors, id), id)
  /\ UNCHANGED <<closed, compressors, kind, eocd, skipped, sc, res>>

\* Writer.Create(name): a fresh FileHeader, then CreateHeader
Create(name) ==
  /\ Call("add")
  /\ Created("Create",
             CreateHeaderOn(
               [Now EXCEPT !.heap = Append(@, FileHeader(name, Deflate, 0, 0,
                                                         "create"))],
               compressors, Len(heap) + 1),
             Len(heap) + 1)
  /\ UNCHANGED <<closed, compressors, kind, eocd, skipped, sc, res>>

\* Copy returns, the Writer as S
Copied(S, f) ==
  /\ Becomes(S)
  /\ ret' = Returned("Copy", IF S.panic # "" THEN S.panic ELSE NoErr, 0, 0, f)

\* Writer.Copy(f), f one of the source files
Copy(f) ==
  /\ Call("add")
  /\ IF ~SrcFiles[f].dataOK
     THEN /\ ret' = Returned("Copy", ErrDataOffset, 0, 0, f)
          /\ UNCHANGED <<cw, out, dir, last, names, heap, fws>>
     ELSE Copied(CopyOn(Now, f), f)
  /\ UNCHANGED <<closed, compressors, written, kind, eocd, skipped, sc,
                 res>>

\* fileWriter.Write(p) on the handle i, open or not
Write(i, p) ==
  /\ Call("write")
  /\ IF writeRefused(fws[i])
     THEN /\ ret' = Returned("Write", ErrWriteClosed, 0, i, 0)
          /\ UNCHANGED <<cw, out, dir, last, names, heap, fws, written>>
     ELSE /\ Becomes(fwWrite(Now, i, p))
          /\ written' = [written EXCEPT ![i] = written[i] \o p]
          /\ ret' = Returned("Write", NoErr, Len(p), i, 0)
  /\ UNCHANGED <<closed, compressors, kind, eocd, skipped, sc, res>>

\* Close from the end record on: e is what follows the records, which
\* start at start and end at end
CloseWith(S, records, start, end, e) ==
  /\ closed' = TRUE
  /\ Becomes(writeEnd(S, e))
  /\ eocd' = [records |-> records, start |-> start, end |-> end,
              done |-> TRUE, res |-> e]
  /\ ret' = Returned("Close", NoErr, 0, 0, 0)

\* Close once its loop over w.dir has left D
CloseAfter(D, start) ==
  CloseWith(D.S, D.records, start, D.S.cw,
            endOfDirectory(D.records, start, D.S.cw))

\* Close once the last session is closed
CloseFrom(S) ==
  IF S.panic # ""
  THEN /\ Becomes(S)
       /\ ret' = Returned("Close", S.panic, 0, 0, 0)
       /\ UNCHANGED <<closed, eocd>>
  ELSE IF closed
  THEN /\ Becomes(S)
       /\ ret' = Returned("Close", ErrClosedTwice, 0, 0, 0)
       /\ UNCHANGED <<closed, eocd>>
  ELSE CloseAfter(writeDirectory(S, 1, Wn(0)), S.cw)

\* Writer.Close
Close ==
  /\ Call("close")
  /\ CloseFrom(IF lastOpen(Now) THEN [fwClose(Now, last) EXCEPT !.last = 0]
               ELSE Now)
  /\ UNCHANGED <<compressors, written, kind, skipped, sc, res>>

Next ==
  \/ \E n \in SetOffsetArgs : SetOffset(n)
  \/ \E m \in CustomMethods : \E c \in {"ok", "fails"} : RegisterCompressor(m, c)
  \/ \E id \in UserIds : CreateHeader(id)
  \/ \E name \in Names : Create(name)
  \/ \E f \in 1 .. NumFiles : Copy(f)
  \/ \E i \in 1 .. Len(fws) : \E p \in Payloads : Write(i, p)
  \/ Close

Spec == Init /\ [][Next]_vars

-----------------------------------------------------------------------------
(* The end of the central directory on its own: what Close writes after    *)
(* the records is a function of the record count and of the positions the  *)
(* directory starts and ends at.  SpecEnd draws these three from the       *)
(* values around the 16-bit and 32-bit limits, which no directory of a     *)
(* handful of entries reaches, and applies that part of Close to them.     *)

EndCounts == { Wn(0), Wn(1), W(0, 65534), uint16max, W(1, 0), W(1, 1) }
EndSizes == { Wn(0), Wn(46), W(65535, 65534), uint32max, W(65536, 0),
              W(65536, 1) }
EndStarts == { Wn(0), Wn(30), W(65535, 65534), uint32max, W(65536, 0),
               W(65536, 1) }

InitEnd ==
  /\ kind = "new"
  /\ skipped = FALSE
  /\ sc = ZeroCert
  /\ res = NoCall
  /\ dir = <<>>
  /\ names = <<>>
  /\ \E r \in EndCounts, sz \in EndSizes, st \in EndStarts :
       /\ eocd = [records |-> r, start |-> st, end |-> WAdd(st, sz),
                  done |-> FALSE, res |-> NoEnd]
       /\ cw = WAdd(st, sz)
  /\ out = <<>>
  /\ last = 0
  /\ closed = TRUE
  /\ compressors = <<>>
  /\ heap = InitHeap
  /\ fws = <<>>
  /\ written = <<>>
  /\ ret = Returned("new", NoErr, 0, 0, 0)
  /\ calls = [c \in CallKinds |-> 0]

\* Close from the end of its loop on
CloseEnd ==
  /\ ~eocd.done
  /\ LET e == endOfDirectory(eocd.records, eocd.start, eocd.end) IN
       /\ Becomes(writeEnd(Now, e))
       /\ eocd' = [eocd EXCEPT !.done = TRUE, !.res = e]
  /\ ret' = Returned("Close", NoErr, 0, 0, 0)
  /\ UNCHANGED <<closed, compressors, written, calls, kind, skipped, sc,
                 res>>

NextEnd == CloseEnd

SpecEnd == InitEnd /\ [][NextEnd]_vars

-----------------------------------------------------------------------------
(* PaddingHeader on its own: a caller pads a FileHeader and the header is  *)
(* then written at the stream's current offset.                            *)

MaxPadExtra == 5       \* longest Extra a header starts with
PadNames == {"", "a", "ab", "abc", "abcd"}
PadOffsets == { Wn(0), Wn(1), Wn(2), Wn(3), Wn(4), W(65535, 65535) }
PadSizes == { <<Wn(0), Wn(0)>>, <<Wn(5), Wn(5)>>, <<Wn(3), Wn(5)>> }

InitPad ==
  /\ kind = "pad"
  /\ skipped = FALSE
  /\ sc = ZeroCert
  /\ res = NoCall
  /\ \E name \in PadNames, n \in 0 .. MaxPadExtra, sz \in PadSizes :
       heap = << [FileHeader(name, Store, n, 0, "user") EXCEPT
                    !.CompressedSize64 = sz[1],
                    !.UncompressedSize64 = sz[2]] >>
  /\ cw \in PadOffsets
  /\ dir = <<>>
  /\ names = <<>>
  /\ out = <<>>
  /\ last = 0
  /\ closed = FALSE
  /\ compressors = <<>>
  /\ fws = <<>>
  /\ written = <<>>
  /\ ret = Returned("new", NoErr, 0, 0, 0)
  /\ calls = [c \in CallKinds |-> 0]
  /\ eocd = NoTotals

\* w.PaddingHeader(fh)
Pad ==
  /\ ret.op = "new"
  /\ heap' = [heap EXCEPT ![1] = PaddingHeader(@)]
  /\ ret' = Returned("PaddingHeader", NoErr, 0, 0, 1)
  /\ UNCHANGED <<cw, out, dir, last, closed, names, compressors, fws, written,
                 calls, kind, eocd, skipped, sc, res>>

\* writeHeader(w.cw, fh) of the padded header
PutHeader ==
  /\ ret.op = "PaddingHeader"
  /\ Becomes(writeHeader(Now, heap[1]))
  /\ ret' = Returned("writeHeader", NoErr, 0, 0, 1)
  /\ UNCHANGED <<closed, compressors, written, calls, kind, eocd, skipped, sc,
                 res>>

NextPad == Pad \/ PutHeader

SpecPad == InitPad /\ [][NextPad]_vars

-----------------------------------------------------------------------------
(* One SigningCert instance, its caller and the files its paths name.  The *)
(* caller assigns the exported fields between calls; what a path names is  *)
(* whatever is there when a call loads it.                                 *)

InitSign ==
  /\ kind = "sign"
  /\ skipped = FALSE
  /\ \E a \in Algorithms, kp \in KeyPaths, cp \in CertPaths :
       sc = SigningCert(kp, NilBytes, a[1], a[2], cp, NilBytes)
  /\ res = NoCall
  /\ heap = <<>>
  /\ cw = Wn(0)
  /\ dir = <<>>
  /\ names = <<>>
  /\ out = <<>>
  /\ last = 0
  /\ closed = FALSE
  /\ compressors = <<>>
  /\ fws = <<>>
  /\ written = <<>>
  /\ ret = Returned("new", NoErr, 0, 0, 0)
  /\ calls = [c \in CallKinds |-> 0]
  /\ eocd = NoTotals

\* the caller assigned fields of the instance
Assigned(s) ==
  /\ ~res.panic
  /\ sc' = s
  /\ res' = [op |-> "assign", err |-> NoErr, panic |-> FALSE, did |-> <<>>]
  /\ UNCHANGED <<cw, out, dir, last, closed, names, compressors, heap, fws,
                 written, ret, calls, kind, eocd, skipped>>

SetKeyBytes(b) == Assigned([sc EXCEPT !.KeyBytes = b])

SetCertBytes(b) == Assigned([sc EXCEPT !.CertBytes = b])

SetAlgorithm(a) == Assigned([sc EXCEPT !.Type = a[1], !.Hash = a[2]])

SetPaths(kp, cp) == Assigned([sc EXCEPT !.KeyPath = kp, !.CertPath = cp])

\* a Resolve call returned R
Returns(op, R) ==
  /\ ~res.panic
  /\ sc' = R.sc
  /\ res' = [op |-> op, err |-> R.err, panic |-> R.panic, did |-> R.did]
  /\ UNCHANGED <<cw, out, dir, last, closed, names, compressors, heap, fws,
                 written, ret, calls, kind, eocd, skipped>>

\* sc.SigningKey.Resolve()
KeyResolve(file) == Returns("SigningKey.Resolve", SigningKeyResolve(sc, file))

\* sc.Resolve()
CertResolve(keyFile, certFile) ==
  Returns("SigningCert.Resolve", SigningCertResolve(sc, keyFile, certFile))

NextSign ==
  \/ \E b \in KeySources : SetKeyBytes(b)
  \/ \E b \in CertSources : SetCertBytes(b)
  \/ \E a \in Algorithms : SetAlgorithm(a)
  \/ \E kp \in KeyPaths, cp \in CertPaths : SetPaths(kp, cp)
  \/ \E f \in KeyFiles : KeyResolve(f)
  \/ \E kf \in KeyFiles, cf \in CertFiles : CertResolve(kf, cf)

SpecSign == InitSign /\ [][NextSign]_vars

-----------------------------------------------------------------------------
(* Reading the state *)

\* the positions in the sink's segments of the structures of one kind
Segs(kd) == {j \in 1 .. Len(out) : out[j].k = kd}

\* the sessions that are open
OpenSessions == {i \in 1 .. Len(fws) : ~fws[i].closed}

\* the call that led to this state was a call to op that returned success
Succeeded(op) == ret.op = op /\ ret.err = NoErr

\* the names of the entries added since construction, tombstoned or not:
\* an entry added by a call keeps its header, only entries taken over from
\* a Reader are ever tombstoned
LiveSlots == {s \in 1 .. Len(dir) : dir[s].fh # 0}

-----------------------------------------------------------------------------
(* C1: for every Writer and every sequence of Create/CreateHeader/Copy     *)
(* calls followed by Close, the central directory Close writes holds at    *)
(* most one record per name, and that record is the one of the entry added *)
(* last under that name.                                                   *)
C1_OneRecordPerName ==
  Succeeded("Close") =>
    /\ \A i, j \in Segs("cdr") : out[i].Name = out[j].Name => i = j
    /\ \A i \in Segs("cdr") : \A s \in LiveSlots :
         heap[dir[s].fh].Name = out[i].Name => s <= out[i].slot

-----------------------------------------------------------------------------
(* C2: at most one entry write session is open in any state, and a         *)
(* CreateHeader, Create, Copy or Close made while a session is open closes *)
(* it and pushes its data descriptor (after what its compressor still      *)
(* held) before any structure of its own.                                  *)
ClosesSession(op, err) ==
  \/ op \in {"Create", "CreateHeader", "Close"}
  \/ op = "Copy" /\ err # ErrDataOffset

C2_Step ==
  /\ Cardinality(OpenSessions') <= 1
  /\ \A i \in OpenSessions :
       (nops' = nops + 1 /\ ClosesSession(ret'.op, ret'.err)) =>
         /\ fws'[i].closed
         /\ \E d \in (Len(out) + 1) .. Len(out') :
              /\ out'[d].k = "desc"
              /\ out'[d].crc = fws'[i].crc32
              /\ \A j \in (Len(out) + 1) .. (d - 1) : out'[j].k = "data"
              /\ SubSeq(out', 1, Len(out)) = out

C2_OneOpenSession == [][C2_Step]_vars

\* a second entry was opened while the first was still open, and the first
\* is closed now
C2_Witness ==
  /\ ret.op \in {"Create", "CreateHeader"}
  /\ ret.err = NoErr
  /\ \E i \in 1 .. Len(fws) : fws[i].closed /\ i # last
  /\ last # 0
  /\ ~fws[last].closed

-----------------------------------------------------------------------------
(* C3: a Write on a handle whose session is closed returns the             *)
(* write-to-closed-file error with 0 bytes written and changes neither the *)
(* session (CRC accumulator, raw and compressed counters), nor the stream  *)
(* offset counter, nor what was pushed to the sink.                        *)
C3_Step ==
  (calls'.write = calls.write + 1 /\ fws[ret'.h].closed) =>
    /\ ret'.err = ErrWriteClosed
    /\ ret'.n = 0
    /\ fws' = fws
    /\ written' = written
    /\ cw' = cw
    /\ out' = out
    /\ heap' = heap
    /\ dir' = dir

C3_WriteAfterClose == [][C3_Step]_vars

\* a Write was refused on a session that had taken bytes before it closed
C3_Witness ==
  /\ ret.op = "Write"
  /\ ret.err = ErrWriteClosed
  /\ fws[ret.h].closed
  /\ written[ret.h] # <<>>

-----------------------------------------------------------------------------
(* Finding an entry's structures among the segments o pushed to the sink,  *)
(* for the directory d.  Each gives a position in o, 0 if there is none.   *)

Least(S) == IF S = {} THEN 0 ELSE CHOOSE x \in S : \A y \in S : x <= y

\* the local header written at the offset recorded in slot s
LfhIn(o, d, s) ==
  Least({j \in 1 .. Len(o) : o[j].k = "lfh" /\ o[j].at = d[s].offset})

\* the first data descriptor after that local header
DescIn(o, d, s) ==
  IF LfhIn(o, d, s) = 0 THEN 0
  ELSE Least({j \in (LfhIn(o, d, s) + 1) .. Len(o) : o[j].k = "desc"})

\* the central-directory record written for slot s
CdrIn(o, s) == Least({j \in 1 .. Len(o) : o[j].k = "cdr" /\ o[j].slot = s})

\* the size or offset a central-directory record stands for: the 32-bit
\* field, or the value in its zip64 block when it carries one
HasBlock(r) == r.Extra # <<>> /\ r.Extra[Len(r.Extra)].tag = "zip64"
RecCSize(r) == IF HasBlock(r) THEN r.Extra[Len(r.Extra)].csize ELSE r.csize
RecUSize(r) == IF HasBlock(r) THEN r.Extra[Len(r.Extra)].usize ELSE r.usize
RecOffset(r) == IF HasBlock(r) THEN r.Extra[Len(r.Extra)].offset ELSE r.offset

(* C4: once an entry's write session is closed, the CRC-32 and the sizes   *)
(* recorded for its directory entry never change again, and its            *)
(* central-directory record carries the values of its data descriptor.     *)
Recorded(h, d, s) ==
  IF d[s].fh = 0 THEN <<>>
  ELSE << h[d[s].fh].CRC32, h[d[s].fh].CompressedSize64,
          h[d[s].fh].UncompressedSize64 >>

C4_Step ==
  /\ \A i \in 1 .. Len(fws) :
       fws[i].closed =>
         Recorded(heap', dir', fws[i].header) = Recorded(heap, dir, fws[i].header)
  /\ \A i \in 1 .. Len(fws') :
       LET c == CdrIn(out', fws'[i].header)
           e == DescIn(out', dir', fws'[i].header)
       IN (c # 0 /\ e # 0) =>
            /\ out'[c].crc = out'[e].crc
            /\ RecCSize(out'[c]) = out'[e].csize
            /\ RecUSize(out'[c]) = out'[e].usize

C4_FinalOnceClosed == [][C4_Step]_vars

-----------------------------------------------------------------------------
(* C5: CreateHeader called with a FileHeader object that an earlier        *)
(* CreateHeader of the same Writer already made an entry of (any earlier   *)
(* one) fails with the duplicate-FileHeader error, adds no directory entry *)
(* and writes no local header.                                             *)
C5_Step ==
  (/\ calls'.add = calls.add + 1
   /\ ret'.op = "CreateHeader"
   /\ \E s \in 1 .. Len(dir) : dir[s].fh = ret'.fh) =>
    /\ ret'.err = ErrDuplicate
    /\ Len(dir') = Len(dir)
    /\ \A j \in (Len(out) + 1) .. Len(out') : out'[j].k # "lfh"

C5_AnyReuseRefused == [][C5_Step]_vars

-----------------------------------------------------------------------------
(* C6: after a Close that returned success, every further Close returns    *)
(* the writer-closed-twice error and pushes no byte to the sink.           *)
C6_Step ==
  (closed /\ calls'.close = calls.close + 1) =>
    /\ ret'.err = ErrClosedTwice
    /\ out' = out
    /\ cw' = cw

C6_SecondCloseInert == [][C6_Step]_vars

-----------------------------------------------------------------------------
(* C7: once Close has returned success, no later call pushes a byte to the *)
(* sink or adds a directory entry: the end record stays the last thing     *)
(* written.                                                                *)
C7_Step == closed => (out' = out /\ cw' = cw /\ dir' = dir)

C7_NothingAfterClose == [][C7_Step]_vars

-----------------------------------------------------------------------------
(* C8: Close writes the zip64 end record and its locator, immediately      *)
(* before the classic end record, exactly when the record count exceeds    *)
(* 65535 or the directory's size or starting offset exceeds 2^32-1.  When  *)
(* it does, the classic record's count, size and offset are 0xffff,        *)
(* 0xffffffff and 0xffffffff and the zip64 record holds the true values;   *)
(* when it does not, the classic record holds the true values.             *)
C8_Zip64End ==
  eocd.done =>
    LET n == Least(Segs("eocd"))
        size == WSub(eocd.end, eocd.start)
        big == \/ WGt(eocd.records, W(0, 65535))
               \/ WGt(size, W(65535, 65535))
               \/ WGt(eocd.start, W(65535, 65535))
    IN /\ n # 0
       /\ big =>
            /\ n >= 3
            /\ out[n - 2].k = "z64end"
            /\ out[n - 1].k = "z64loc"
            /\ out[n - 2].at = eocd.end
            /\ out[n - 1].at = WAdd(out[n - 2].at, out[n - 2].len)
            /\ out[n].at = WAdd(out[n - 1].at, out[n - 1].len)
            /\ out[n - 2].records = eocd.records
            /\ out[n - 2].recordsDisk = eocd.records
            /\ out[n - 2].size = size
            /\ out[n - 2].offset = eocd.start
            /\ out[n - 1].endOffset = eocd.end
            /\ out[n].records = 65535
            /\ out[n].recordsDisk = 65535
            /\ out[n].size = W(65535, 65535)
            /\ out[n].offset = W(65535, 65535)
       /\ ~big =>
            /\ Segs("z64end") = {}
            /\ Segs("z64loc") = {}
            /\ out[n].at = eocd.end
            /\ Wn(out[n].records) = eocd.records
            /\ Wn(out[n].recordsDisk) = eocd.records
            /\ out[n].size = size
            /\ out[n].offset = eocd.start

\* 65536 records in a small directory near the start of the stream: the
\* record count alone brings the zip64 end record
C8_Witness ==
  /\ eocd.done
  /\ eocd.records = W(1, 0)
  /\ ~WGt(eocd.end, W(65535, 65535))
  /\ Segs("z64end") # {}
  /\ Segs("eocd") # {}

-----------------------------------------------------------------------------
(* C9.  What a central-directory record must look like for the entry (its  *)
(* header fh, its offset off) given whether it is to use zip64 or not.     *)
C9_Shape(r, fh, off, z64) ==
  /\ z64 =>
       /\ r.csize = W(65535, 65535)
       /\ r.usize = W(65535, 65535)
       /\ HasBlock(r)
       /\ r.Extra[Len(r.Extra)] =
            [tag |-> "zip64", len |-> 28, id |-> 1, size |-> 24,
             usize |-> fh.UncompressedSize64, csize |-> fh.CompressedSize64,
             offset |-> off]
  /\ ~z64 =>
       /\ r.csize = fh.CompressedSize64
       /\ r.usize = fh.UncompressedSize64
       /\ r.offset = off
       /\ \A x \in 1 .. Len(r.Extra) : r.Extra[x].tag # "zip64"

Exceeds32(v) == WGt(v, W(65535, 65535))

-----------------------------------------------------------------------------
(* C10: on a Writer from NewWriter, after any SetOffset, Create and Write  *)
(* calls with pairwise distinct names and then Close, the central          *)
(* directory holds one record per entry, in the order the entries were     *)
(* created; each carries the entry's name, the CRC-32 and the length of    *)
(* the bytes written to it, and the stream position of its local header,   *)
(* where the local header, the payload and the data descriptor lie one     *)
(* after the other.                                                        *)
RECURSIVE Payload(_, _, _)
Payload(o, from, to) ==
  IF from > to THEN <<>> ELSE o[from].raw \o Payload(o, from + 1, to)

\* the position of the n-th structure of kind kd pushed to the sink
Nth(kd, n) ==
  Least({j \in Segs(kd) : Cardinality({x \in Segs(kd) : x <= j}) = n})

C10_Case ==
  /\ kind = "new"
  /\ Succeeded("Close")
  /\ calls.close = 1
  /\ \A s \in 1 .. Len(dir) :
       dir[s].fh # 0 /\ heap[dir[s].fh].origin = "create"
  /\ \A s, t \in 1 .. Len(dir) :
       heap[dir[s].fh].Name = heap[dir[t].fh].Name => s = t

C10_WrittenThenListed ==
  C10_Case =>
    /\ Cardinality(Segs("cdr")) = Len(dir)
    /\ Len(fws) = Len(dir)
    /\ \A s \in 1 .. Len(dir) :
         LET c == Nth("cdr", s)
             l == Nth("lfh", s)
             e == Nth("desc", s)
         IN /\ c # 0 /\ l # 0 /\ e # 0
            /\ \A x \in Segs("cdr") : x < c <=> out[x].slot < s
            /\ out[c].Name = heap[dir[s].fh].Name
            /\ out[c].nameLen = Len(out[c].Name)
            /\ out[c].crc = crc32Update(Wn(0), written[s])
            /\ RecUSize(out[c]) = Wn(Len(written[s]))
            /\ RecOffset(out[c]) = out[l].at
            /\ out[l].Name = out[c].Name
            /\ l < e
            /\ \A j \in (l + 1) .. (e - 1) : out[j].k = "data"
            /\ \A j \in l .. (e - 1) : out[j + 1].at = WAdd(out[j].at, out[j].len)
            /\ Payload(out, l + 1, e - 1) = written[s]
            /\ out[e].crc = out[c].crc
            /\ out[e].usize = RecUSize(out[c])
            /\ out[e].csize = RecCSize(out[c])

\* two entries written one after the other from a starting offset that was
\* set, the first with content
C10_Witness ==
  /\ C10_Case
  /\ Len(dir) = 2
  /\ written[1] # <<>>
  /\ out[1].at # Wn(0)

-----------------------------------------------------------------------------
(* C11: a Copy of source file f that returns success has pushed a local    *)
(* header with flag bit 3 set at the offset it recorded for the entry,     *)
(* then the source's CompressedSize64 bytes as they are, then a data       *)
(* descriptor with the source's CRC-32 and sizes, and has left the source  *)
(* File's own FileHeader as it was; and the record Close writes for the    *)
(* copy carries the source's CRC-32 and sizes.                             *)
HasBit3(flags) == (flags \div 8) % 2 = 1

\* the source file whose bytes follow the local header of slot s
CopiedFrom(o, d, s) == o[LfhIn(o, d, s) + 1].src

C11_CopyStep ==
  (calls'.add = calls.add + 1 /\ ret'.op = "Copy" /\ ret'.err = NoErr) =>
    LET n == Len(out')
        src == SrcFiles[ret'.fh].hdr
    IN /\ n >= Len(out) + 3
       /\ Len(dir') = Len(dir) + 1
       /\ out'[n - 2].k = "lfh"
       /\ out'[n - 2].at = dir'[Len(dir')].offset
       /\ (Len(out') = Len(out) + 3) => out'[n - 2].at = cw
       /\ HasBit3(out'[n - 2].Flags)
       /\ out'[n - 2].Name = src.Name
       /\ out'[n - 1].k = "data"
       /\ out'[n - 1].src = ret'.fh
       /\ out'[n - 1].len = src.CompressedSize64
       /\ out'[n - 1].at = WAdd(out'[n - 2].at, out'[n - 2].len)
       /\ out'[n].k = "desc"
       /\ out'[n].at = WAdd(out'[n - 1].at, out'[n - 1].len)
       /\ out'[n].crc = src.CRC32
       /\ out'[n].csize = src.CompressedSize64
       /\ out'[n].usize = src.UncompressedSize64
       /\ heap'[ret'.fh] = heap[ret'.fh]
       /\ heap'[ret'.fh].Flags = src.Flags

C11_CloseStep ==
  (~closed /\ closed') =>
    \A s \in 1 .. Len(dir) :
      (dir[s].fh # 0 /\ heap[dir[s].fh].origin = "copy") =>
        LET c == CdrIn(out', s)
            src == SrcFiles[CopiedFrom(out', dir', s)].hdr
        IN /\ c # 0
           /\ out'[c].crc = src.CRC32
           /\ RecCSize(out'[c]) = src.CompressedSize64
           /\ RecUSize(out'[c]) = src.UncompressedSize64
           /\ HasBit3(out'[c].Flags)

C11_CopyVerbatim == [][C11_CopyStep /\ C11_CloseStep]_vars

\* Close has written the record of a copy of the source entry whose sizes
\* need 64 bits, made while a session was open
C11_Witness ==
  /\ Succeeded("Close")
  /\ \E s \in 2 .. Len(dir) :
       /\ dir[s].fh # 0
       /\ heap[dir[s].fh].origin = "copy"
       /\ heap[dir[s].fh].Name = ANDROIDMANIFEST
       /\ CdrIn(out, s) # 0
       /\ dir[s - 1].fh # 0
       /\ heap[dir[s - 1].fh].origin = "create"

-----------------------------------------------------------------------------
(* C12: right after newAppendingWriter(r, fw, skipManifest) the directory  *)
(* holds the Reader's entries in the Reader's order at their header        *)
(* offsets, without the entries named ANDROIDMANIFEST exactly when         *)
(* skipManifest is set; every name kept is in the name index and leads to  *)
(* a slot holding a live entry of that name; the offset counter is         *)
(* r.AppendOffset(), so that the first entry added next is recorded there; *)
(* and a Close made at once writes the records of exactly those entries.   *)
Kept(skip) ==
  {i \in 1 .. NumFiles : ~(skip /\ SrcFiles[i].hdr.Name = ANDROIDMANIFEST)}

\* slot j holds the j-th of the files kept, at its header offset
KeptAt(j) ==
  /\ dir[j].fh \in Kept(skipped)
  /\ Cardinality({i \in Kept(skipped) : i <= dir[j].fh}) = j
  /\ dir[j].offset = SrcFiles[dir[j].fh].headerOffset

C12_Constructed ==
  /\ Len(dir) = Cardinality(Kept(skipped))
  /\ \A j \in 1 .. Len(dir) :
       KeptAt(j) /\ heap[dir[j].fh] = SrcFiles[dir[j].fh].hdr
  /\ DOMAIN names = {SrcFiles[i].hdr.Name : i \in Kept(skipped)}
  /\ \A n \in DOMAIN names :
       /\ names[n] \in 1 .. Len(dir)
       /\ dir[names[n]].fh # 0
       /\ heap[dir[names[n]].fh].Name = n
  /\ cw = AppendOffset
  /\ out = <<>>
  /\ last = 0
  /\ ~closed

C12_FirstAdded ==
  /\ Len(dir) = Cardinality(Kept(skipped)) + 1
  /\ dir[Len(dir)].offset = AppendOffset
  /\ out[1].k = "lfh"
  /\ out[1].at = AppendOffset

C12_ClosedAtOnce ==
  /\ Segs("cdr") = 1 .. Len(dir)
  /\ Len(dir) = Cardinality(Kept(skipped))
  /\ out[1].at = AppendOffset
  /\ \A j \in 1 .. Len(dir) :
       /\ KeptAt(j)
       /\ out[j].slot = j
       /\ out[j].Name = SrcFiles[dir[j].fh].hdr.Name
       /\ out[j].crc = SrcFiles[dir[j].fh].hdr.CRC32
       /\ RecCSize(out[j]) = SrcFiles[dir[j].fh].hdr.CompressedSize64
       /\ RecUSize(out[j]) = SrcFiles[dir[j].fh].hdr.UncompressedSize64
       /\ RecOffset(out[j]) = SrcFiles[dir[j].fh].headerOffset
  /\ eocd.records = Wn(Len(dir))

C12_AppendingWriter ==
  kind = "append" =>
    /\ nops = 0 => C12_Constructed
    /\ (nops = 1 /\ calls.add = 1 /\ ret.err = NoErr) => C12_FirstAdded
    /\ (nops = 1 /\ Succeeded("Close")) => C12_ClosedAtOnce

\* an appending writer that was told to skip the manifest was closed at
\* once: the directory has the records of the other entries
C12_Witness ==
  /\ kind = "append"
  /\ skipped
  /\ nops = 1
  /\ Succeeded("Close")
  /\ Cardinality(Segs("cdr")) = NumFiles - 1

-----------------------------------------------------------------------------
(* C13: SetOffset(n) panics exactly when at least one byte has been        *)
(* written through the Writer; when none has (after an earlier SetOffset   *)
(* and on an appending writer too) it sets the offset counter to n.  A     *)
(* call that panics leaves the counter as it was.                          *)
BytesWritten == \E j \in 1 .. Len(out) : WGt(out[j].len, Wn(0))

C13_Step ==
  \A n \in SetOffsetArgs :
    (calls'.set = calls.set + 1 /\ SetOffset(n)) =>
      /\ ret'.panic <=> BytesWritten
      /\ ret'.panic => cw' = cw
      /\ ~ret'.panic => cw' = n

C13_SetOffsetBeforeData == [][C13_Step]_vars

-----------------------------------------------------------------------------
(* C14: a CreateHeader whose method has neither a compressor registered    *)
(* with the Writer nor a built-in one returns ErrAlgorithm, writes no      *)
(* local header, adds no directory entry, leaves no session open, and      *)
(* leaves the live entries of the directory and the name index as they     *)
(* were: no entry of the same name is superseded.                          *)
C14_Step ==
  (/\ calls'.add = calls.add + 1
   /\ ret'.op = "CreateHeader"
   /\ compressor(compressors, heap[ret'.fh].Method) = "none") =>
    /\ ret'.err = ErrAlgorithm
    /\ ret'.h = 0
    /\ \A j \in (Len(out) + 1) .. Len(out') : out'[j].k # "lfh"
    /\ Len(dir') = Len(dir)
    /\ OpenSessions' = {}
    /\ LiveSlots' = LiveSlots
    /\ names' = names

C14_UnknownMethod == [][C14_Step]_vars

-----------------------------------------------------------------------------
(* C15: for a header whose CompressedSize64 equals its UncompressedSize64, *)
(* PaddingHeader followed by the writing of the header at any stream       *)
(* offset puts the start of the entry's data (offset + 30 + name length +  *)
(* extra length) on a multiple of 4, by appending 0 to 3 null bytes to     *)
(* Extra; for every name length and every earlier Extra length.            *)
C15_DataAligned ==
  (/\ ret.op = "writeHeader"
   /\ heap[1].CompressedSize64 = heap[1].UncompressedSize64) =>
    /\ out[1].k = "lfh"
    /\ out[1].len = Wn(30 + Len(heap[1].Name) + ExtraLen(heap[1].Extra))
    /\ WAdd(out[1].at, out[1].len).lo % 4 = 0
    /\ \A x \in 1 .. Len(heap[1].Extra) :
         heap[1].Extra[x].tag = "pad" =>
           (x = Len(heap[1].Extra) /\ heap[1].Extra[x].len \in 1 .. 3)


-----------------------------------------------------------------------------
(* Reading a Resolve call *)

\* the step is the return of a Resolve call
Resolving == res'.op \in {"SigningKey.Resolve", "SigningCert.Resolve"}

\* the tags of the instance are the ones Resolve supports
TagsValid == sc.Type = RSA /\ sc.Hash \in {SHA256, SHA512}

\* what a call did, by name, restricted to the events of one set
Did(did, evs) ==
  [x \in 1 .. Len(SelectSeq(did, LAMBDA e : e.ev \in evs)) |->
     SelectSeq(did, LAMBDA e : e.ev \in evs)[x].ev]

\* the bytes a call handed to pem.Decode at the event ev
Decoded(did, ev) ==
  SelectSeq(did, LAMBDA e : e.ev = ev)[1].bytes

KeyEvents == {"load:key", "pem:key", "pkcs1", "pkcs8"}
CertEvents == {"load:cert", "pem:cert", "x509"}

-----------------------------------------------------------------------------
\* C16: a Resolve call on an instance whose Type is not RSA, or whose Hash is
\* neither SHA256 nor SHA512, returns an error whatever KeyPath, KeyBytes and
\* Key hold; it loads and decodes nothing and leaves every field as it was.
C16_Step ==
  (Resolving /\ ~TagsValid) =>
    /\ res'.err \in {ErrECKey, ErrHash}
    /\ res'.err # NoErr
    /\ ~res'.panic
    /\ res'.did = <<>>
    /\ sc' = sc

C16_TagsChecked == [][C16_Step]_vars

\* a call failed on the hash tag with a parsed key present and key bytes
\* supplied
C16_Witness ==
  /\ res.op = "SigningKey.Resolve"
  /\ res.err = ErrHash
  /\ sc.Type = RSA
  /\ sc.Key = Key1
  /\ sc.KeyPath = ""
  /\ sc.KeyBytes.pem

-----------------------------------------------------------------------------
\* C17: with valid tags, a Resolve call on an instance whose Key is set and
\* whose KeyPath is empty neither loads nor decodes nor parses key bytes and
\* leaves Key as it was; SigningKey.Resolve itself succeeds, did nothing and
\* left every field unchanged, whatever KeyBytes holds.
C17_Step ==
  (Resolving /\ TagsValid /\ sc.Key # NilKey /\ sc.KeyPath = "") =>
    /\ Did(res'.did, KeyEvents) = <<>>
    /\ sc'.Key = sc.Key
    /\ sc'.KeyBytes = sc.KeyBytes
    /\ res'.op = "SigningKey.Resolve" =>
         (res'.err = NoErr /\ res'.did = <<>> /\ sc' = sc)

C17_ResolvedKeyKept == [][C17_Step]_vars

\* a call succeeded as a no-op over key bytes that do not parse
C17_Witness ==
  /\ res.op = "SigningKey.Resolve"
  /\ res.err = NoErr
  /\ res.did = <<>>
  /\ sc.KeyPath = ""
  /\ sc.Key = Key1
  /\ sc.KeyBytes = Pem("PRIVATE KEY", "junk", NilKey)

-----------------------------------------------------------------------------
\* C18: a Resolve call that decodes key bytes b: if b holds a PEM block of
\* type 'RSA PRIVATE KEY' or 'PRIVATE KEY', PKCS#1 is tried first and alone
\* when it succeeds (Key is that key); otherwise PKCS#8 is tried after it:
\* an RSA key becomes Key, a key of another type is a panic with Key
\* unchanged, and a failure returns the PKCS#8 parser's error with Key
\* unchanged. Bytes without a PEM block, or a block of another type, return
\* an error and no parser is tried.
C18_Parsed(b) ==
  IF b.pem /\ b.type \in {"RSA PRIVATE KEY", "PRIVATE KEY"}
  THEN IF b.der.enc = "pkcs1"
       THEN /\ Did(res'.did, {"pkcs1", "pkcs8"}) = <<"pkcs1">>
            /\ sc'.Key = b.der.key
            /\ res'.op = "SigningKey.Resolve" => res'.err = NoErr
       ELSE IF b.der.enc = "pkcs8" /\ b.der.key.alg = RSA
       THEN /\ Did(res'.did, {"pkcs1", "pkcs8"}) = <<"pkcs1", "pkcs8">>
            /\ sc'.Key = b.der.key
            /\ res'.op = "SigningKey.Resolve" => res'.err = NoErr
       ELSE IF b.der.enc = "pkcs8"
       THEN /\ Did(res'.did, {"pkcs1", "pkcs8"}) = <<"pkcs1", "pkcs8">>
            /\ res'.panic
            /\ sc' = sc
       ELSE /\ Did(res'.did, {"pkcs1", "pkcs8"}) = <<"pkcs1", "pkcs8">>
            /\ res'.err = ErrPKCS8
            /\ ~res'.panic
            /\ sc' = sc
  ELSE /\ Did(res'.did, {"pkcs1", "pkcs8"}) = <<>>
       /\ res'.err \in {ErrKeyPEM, ErrKeyBlock}
       /\ b.pem <=> res'.err = ErrKeyBlock
       /\ sc' = sc

C18_Step ==
  Resolving =>
    IF Did(res'.did, {"pem:key"}) = <<>>
    THEN Did(res'.did, {"pkcs1", "pkcs8"}) = <<>> /\ sc'.Key = sc.Key
    ELSE C18_Parsed(Decoded(res'.did, "pem:key"))

C18_ParserOrder == [][C18_Step]_vars

\* a call fell back to PKCS#8 and took the RSA key it found
C18_Witness ==
  /\ res.op = "SigningKey.Resolve"
  /\ res.err = NoErr
  /\ Did(res.did, {"pkcs1", "pkcs8"}) = <<"pkcs1", "pkcs8">>
  /\ sc.Key = Key2

-----------------------------------------------------------------------------
\* C19: a SigningCert.Resolve call keeps this true of the instance: when
\* Certificate is non-nil, its public key has the modulus and the exponent
\* of Key; and a call that parses a certificate whose RSA public key
\* differs from the resolved key returns the 'does not match' error.
C19_Matches ==
  ~sc.Certificate.nil =>
    /\ sc.Certificate.PublicKey.N = sc.Key.N
    /\ sc.Certificate.PublicKey.E = sc.Key.E

C19_Keeps ==
  (res'.op = "SigningCert.Resolve" /\ C19_Matches) => C19_Matches'

C19_Mismatch ==
  (/\ res'.op = "SigningCert.Resolve"
   /\ Did(res'.did, {"x509"}) # <<>>
   /\ Decoded(res'.did, "pem:cert").der.enc = "cert"
   /\ Decoded(res'.did, "pem:cert").der.key.alg = RSA
   /\ \/ Decoded(res'.did, "pem:cert").der.key.N # sc'.Key.N
      \/ Decoded(res'.did, "pem:cert").der.key.E # sc'.Key.E) =>
    res'.err = ErrMismatch

C19_CertMatchesKey == [][C19_Keeps /\ C19_Mismatch]_vars

-----------------------------------------------------------------------------
\* C20: Certificate and CertHash change only in a SigningCert.Resolve call
\* that succeeds, which sets both (the certificate it parsed and the digest
\* of its raw bytes); every other step leaves both as they were, a call
\* whose embedded SigningKey.Resolve failed has touched no certificate
\* bytes, and Certificate is non-nil exactly when CertHash is non-empty.
C20_Together == sc.Certificate.nil <=> sc.CertHash = <<>>

C20_Step ==
  /\ (res'.op = "SigningCert.Resolve" /\ res'.err = NoErr) =>
       /\ ~sc'.Certificate.nil
       /\ sc'.CertHash # <<>>
       /\ sc'.Certificate.Raw = Decoded(res'.did, "pem:cert").der
       /\ sc'.CertHash = Sum256Hex(sc'.Certificate.Raw)
  /\ ~(res'.op = "SigningCert.Resolve" /\ res'.err = NoErr) =>
       /\ sc'.Certificate = sc.Certificate
       /\ sc'.CertHash = sc.CertHash
  /\ (/\ res'.op = "SigningCert.Resolve"
      /\ \/ res'.err \in {ErrECKey, ErrHash, ErrKeyPEM, ErrKeyBlock, ErrPKCS8}
         \/ res'.panic) =>
       Did(res'.did, CertEvents) = <<>>

C20_WrittenTogether == [][C20_Step]_vars /\ []C20_Together

\* a call failed on the mismatch over a certificate stored by an earlier
\* call
C20_Witness ==
  /\ res.op = "SigningCert.Resolve"
  /\ res.err = ErrMismatch
  /\ ~sc.Certificate.nil
  /\ sc.CertHash # <<>>
  /\ sc.CertBytes # NilBytes
  /\ sc.Certificate.Raw # sc.CertBytes.der


-----------------------------------------------------------------------------
\* C21: the directory only grows: every step keeps each slot in place with
\* its recorded offset, and keeps its header reference or clears it.  A step
\* that clears slot s clears no other slot, and removes from the name index
\* the name of the header slot s held and no other name; no other step
\* changes the index.  A Close that succeeds writes one record per live
\* slot, in the order of the slots, none for a cleared slot, and the record
\* count it writes (in the zip64 end record when there is one, in the
\* classic end record otherwise) is the number of live slots.

\* the slots the step clears
Cleared == {s \in 1 .. Len(dir) : dir[s].fh # 0 /\ dir'[s].fh = 0}

\* the slots of the records the step writes, in the order it writes them
Emitted(o, n) ==
  [x \in 1 .. Len(SelectSeq(SubSeq(o, n + 1, Len(o)), LAMBDA g : g.k = "cdr")) |->
     SelectSeq(SubSeq(o, n + 1, Len(o)), LAMBDA g : g.k = "cdr")[x].slot]

C21_Frame ==
  /\ Len(dir') >= Len(dir)
  /\ \A s \in 1 .. Len(dir) :
       /\ dir'[s].offset = dir[s].offset
       /\ dir'[s].fh \in {dir[s].fh, 0}
  /\ Cardinality(Cleared) <= 1
  /\ Cleared = {} => names' = names
  /\ \A s \in Cleared :
       /\ heap[dir[s].fh].Name \in DOMAIN names
       /\ names[heap[dir[s].fh].Name] = s
       /\ DOMAIN names' = (DOMAIN names) \ {heap[dir[s].fh].Name}
       /\ \A n \in DOMAIN names' : names'[n] = names[n]
       /\ ret'.op \in {"CreateHeader", "Create"}

C21_Emission ==
  (ret'.op = "Close" /\ ret'.err = NoErr /\ ~closed) =>
    /\ dir' = dir
    /\ \A x \in 1 .. Len(Emitted(out', Len(out))) :
         /\ Emitted(out', Len(out))[x] \in LiveSlots
         /\ x > 1 => Emitted(out', Len(out))[x - 1] < Emitted(out', Len(out))[x]
    /\ \A s \in LiveSlots :
         \E x \in 1 .. Len(Emitted(out', Len(out))) :
           Emitted(out', Len(out))[x] = s
    /\ eocd'.records = Wn(Cardinality(LiveSlots))
    /\ out'[Len(out')].k = "eocd"
    /\ IF eocd'.res.zip64
       THEN /\ out'[Len(out') - 2].k = "z64end"
            /\ out'[Len(out') - 2].records = Wn(Cardinality(LiveSlots))
       ELSE out'[Len(out')].records = Cardinality(LiveSlots)

C21_AppendOnly == [][C21_Frame /\ C21_Emission]_vars

\* a Close wrote the directory of a writer with a cleared slot before a
\* live one
C21_Witness ==
  /\ ret.op = "Close"
  /\ ret.err = NoErr
  /\ \E s \in 1 .. Len(dir), t \in LiveSlots : s < t /\ dir[s].fh = 0
  /\ Cardinality(Segs("cdr")) = Cardinality(LiveSlots)

-----------------------------------------------------------------------------
\* C22: once Close has written the end of the directory, a classic end
\* record whose entry count is 0xffff, or whose size or offset is
\* 0xffffffff, has a zip64 end record and a zip64 locator immediately
\* before it; for every record count, directory size and directory offset.
C22_Unambiguous ==
  eocd.done =>
    /\ Segs("eocd") # {}
    /\ \A n \in Segs("eocd") :
         (\/ out[n].records = 65535
          \/ out[n].size = W(65535, 65535)
          \/ out[n].offset = W(65535, 65535)) =>
           /\ n >= 3
           /\ out[n - 2].k = "z64end"
           /\ out[n - 1].k = "z64loc"

====
